---- MODULE Spec2Model ----
(***************************************************************************)
(* The delegated-signing pipeline of the Lit PKP signer MCP server         *)
(* (mcp-lit-signer/server.py): the API-key check, the LitSignerService     *)
(* session cache, and the build -> sign -> serialize -> broadcast -> wait  *)
(* steps of anchor_state_via_pkp and anchor_action_via_pkp.                *)
(*                                                                         *)
(* The tools are coroutines on one event loop.  Every call to the chain    *)
(* RPC and to the Lit client is synchronous, so a request can be           *)
(* interleaved with another one only where it awaits ctx.info /            *)
(* ctx.report_progress / ctx.error.  One action below is the code between  *)
(* two such awaits.  Steps that touch only the request's own locals        *)
(* (input validation, the final return) are folded into the neighbouring   *)
(* step.  sign_with_pkp is two actions, the session check and the oracle   *)
(* call, between which the request keeps the event loop.                   *)
(*                                                                         *)
(* Spec is the serving server on a chain where the PKP address is an       *)
(* authorized executor; LifeSpec adds the end of the server's lifespan and *)
(* a chain where it is not.                                                *)
(*                                                                         *)
(* Time is counted in minutes and advances in steps of TickMinutes.        *)
(* keccak is modelled as injective: a digest is the tuple it was computed  *)
(* over.                                                                   *)
(***************************************************************************)
EXTENDS Integers, FiniteSets, Sequences, TLC

VARIABLES
    script,          \* a standalone script: its position and the objects it holds
    handles,         \* the number of LitClient objects the service has created
    calc,            \* a call followed on its own: its arguments and result
    server,          \* the MCP server: "serving" until its lifespan ends
    authorized,      \* the contract takes anchorState from the PKP address
    anchor,          \* the contract's state hash of the token (getStateAnchor)
    mcp_api_key,     \* module global MCP_API_KEY (None or the configured key)
    now,             \* datetime.utcnow(), in minutes
    client,          \* LitSignerService.client
    session_sigs,    \* LitSignerService.session_sigs
    session_expiry,  \* LitSignerService.session_expiry
    chainNonce,      \* eth.get_transaction_count(PKP_ETH_ADDRESS)
    req              \* per request: position, arguments, locals, calls made

vars == <<script, handles, calc, server, authorized, anchor, mcp_api_key, now, client, session_sigs,
          session_expiry, chainNonce, req>>

---------------------------------------------------------------------------
(* Bounds of the model *)

NumReq == 2
MaxTicks == 2
TickMinutes == 28
MaxHandles == 2
MaxScriptTicks == 6
ScriptTickMinutes == 5

(* Program constants *)

CHAIN_ID == 84532
GasLimit == 200000
PriorityFeeWei == 1000000000
SessionMinutes == 60
RefreshMinutes == 55
SignerSessionMinutes == 10

Req == 1 .. NumReq

---------------------------------------------------------------------------
(* Values *)

None == "None"
\* what a dropped argument or local reads as
Dead == "-"
GoodKey == "key-configured"
WrongKey == "wrong-key-12345"
EmptyKey == ""

ApiKeys == {None, EmptyKey, GoodKey, WrongKey}

ToolNames == {"anchor_state_via_pkp", "anchor_action_via_pkp"}
ReadOnlyTools == {"get_pkp_balance", "verify_state_anchor"}

\* A state_hash argument, by what the code looks at: its first two characters and
\* its length.  HashLen is the length of "0x" followed by 64 hex characters.
ByteBase == 4
SigLen == 2
CurveOrder == 13
MaxBaseFee == 3
HashLen == 66
GoodHash == [prefix |-> "0x", len |-> HashLen, id |-> "ab"]
ShortHash == [prefix |-> "0x", len |-> HashLen - 2, id |-> "ab"]
NoPrefixHash == [prefix |-> "ab", len |-> HashLen, id |-> "ab"]
\* the same 32 bytes as GoodHash, written with upper-case hex digits
UpperHash == [prefix |-> "0x", len |-> HashLen, id |-> "AB"]
NoHash == [prefix |-> Dead, len |-> 0, id |-> Dead]
StateHashes == {GoodHash, UpperHash, ShortHash, NoPrefixHash}
\* "0x" and 64 characters that are not all hex digits: letters outside a-f, or
\* 62 hex digits and two blanks
NonHexHash == [prefix |-> "0x", len |-> HashLen, id |-> "zz"]
SpacedHash == [prefix |-> "0x", len |-> HashLen, id |-> "ab  "]
MalformedHashes == {NonHexHash, SpacedHash}
\* keccak(text=anchor_payload): the combined hash anchor_action_via_pkp computes
\* from its arguments and anchors in place of a state_hash
CombinedHash == [prefix |-> "0x", len |-> HashLen, id |-> "cd"]

\* bytes32 values, written as their lower-case hex digits; ZeroBytes is the
\* state hash of a token that has no anchor yet
ZeroBytes == "00"

\* the 31 bytes that 62 hex digits give
ShortBytes == "ab (31)"

\* bytes.fromhex raises on a character that is neither a hex digit nor
\* whitespace
FromHexRaises(h) == h.id = "zz"

\* bytes.fromhex(state_hash[2:]): hex digits of either case give the same
\* bytes, and whitespace between the digits is skipped
FromHex(h) ==
    CASE h.id = "AB" -> "ab"
      [] h.id = "ab  " -> ShortBytes
      [] OTHER -> h.id

\* contract.encode_abi raises on a bytes32 argument that is not 32 bytes long
EncodeAbiRaises(b) == b = ShortBytes

\* "0x" + result[0].hex(): the state_hash verify_state_anchor returns
ToHex(b) == [prefix |-> "0x", len |-> HashLen, id |-> b]

\* baseFeePerGas of the latest block, in wei, as the node reports it
BaseFees == {7}

CONTRACT_ADDRESS == "0xContract"
PKP_ETH_ADDRESS == "0xPKP"
OtherAddress == "0xOther"

NoClient == [made |-> FALSE, connected |-> FALSE, token |-> FALSE, id |-> 0]
NoSigs == [issued |-> -1, expires |-> -1, via |-> 0]
NoExpiry == -1

NoTx == [chainId |-> 0, nonce |-> -1, maxPriorityFeePerGas |-> 0, maxFeePerGas |-> 0,
         gas |-> 0, to |-> None, value |-> 0, data |-> <<>>]
NoSig == [digest |-> <<>>, signer |-> None, by |-> 0]
NoSent == [tx |-> NoTx, sig |-> NoSig]

\* no call is being followed
NoCalc == [op |-> "none"]

\* no script runs
NoScript == [pc |-> "none"]

\* A request: its position, its arguments and locals, the calls it has made to
\* the chain RPC and to the Lit client, what get_session_sigs and execute_js
\* answered it, the commitment a successful request has anchored, its
\* signed transaction while that is pending in the node, the transaction's fate
\* on the chain, and the result it returned.  Arguments and locals are dropped
\* once nothing reads them any more: tool and state_hash when the transaction
\* is built, the locals on return; api_key, which nothing reads after the
\* API-key check, is kept until the next step and in a rejected call.
IdleReq == [pc |-> "idle", tool |-> Dead, api_key |-> Dead, state_hash |-> NoHash,
            tx |-> NoTx, sig |-> NoSig, sent |-> NoSent,
            nonceReads |-> 0, connects |-> 0, auths |-> 0, execs |-> 0, sends |-> 0,
            authAnswer |-> "none", execAnswer |-> "none",
            chain |-> "none", anchored |-> Dead, result |-> "none"]

---------------------------------------------------------------------------
(* Authentication *)

\* Python truthiness of an Optional[str]
Truthy(k) == k # None /\ k # EmptyKey

\* faulty variant: an unconfigured key disables the check
VerifyApiKeyOpen(provided_key) ==
    IF mcp_api_key = None THEN TRUE
    ELSE IF provided_key = None THEN FALSE
    ELSE provided_key = mcp_api_key

\* verify_api_key
VerifyApiKey(provided_key) ==
    IF mcp_api_key = None THEN FALSE
    ELSE IF provided_key = None THEN FALSE
    ELSE provided_key = mcp_api_key

\* effective_key: the api_key argument, or MCP_API_KEY when that is falsy
EffectiveKey(api_key) == IF Truthy(api_key) THEN api_key ELSE mcp_api_key

---------------------------------------------------------------------------
(* Transactions *)

ValidStateHash(h) == h.prefix = "0x" /\ h.len = HashLen

\* faulty variant: the maximum fee leaves no room for a rising base fee
BuildAnchorTransactionNoHeadroom(token_id, state_hash, state_uri, nonce, base_fee) ==
    [chainId |-> CHAIN_ID,
     nonce |-> nonce,
     maxPriorityFeePerGas |-> PriorityFeeWei,
     maxFeePerGas |-> base_fee + PriorityFeeWei,
     gas |-> GasLimit,
     to |-> CONTRACT_ADDRESS,
     value |-> 0,
     data |-> <<"anchorState", token_id, state_hash, state_uri>>]

BuildAnchorTransaction(token_id, state_hash, state_uri, nonce, base_fee) ==
    [chainId |-> CHAIN_ID,
     nonce |-> nonce,
     maxPriorityFeePerGas |-> PriorityFeeWei,
     maxFeePerGas |-> base_fee * 2 + PriorityFeeWei,
     gas |-> GasLimit,
     to |-> CONTRACT_ADDRESS,
     value |-> 0,
     data |-> <<"anchorState", token_id, state_hash, state_uri>>]

TxFields(tx) ==
    <<tx.chainId, tx.nonce, tx.maxPriorityFeePerGas, tx.maxFeePerGas, tx.gas,
      tx.to, tx.value, tx.data, <<>> >>

ComputeTxHash(tx) == <<"0x02">> \o TxFields(tx)

SerializeSignedTx(tx, signature) == [tx |-> tx, sig |-> signature]

\* faulty variant: a signature without usable r, s, recid is serialized as it is
SerializeRaisesNever(signature) == FALSE

\* serialize_signed_tx raises: int(signature['r'], 16) and the like fail on a
\* signature dict that lacks a field or holds no hex number
SerializeRaises(signature) == signature.signer = None

\* Bytes.  A byte takes ByteBase values, and r and s of a signature are SigLen
\* bytes wide; the curve's group has CurveOrder elements, so that r and s are
\* in 1..CurveOrder-1.
RECURSIVE Pow(_, _)
Pow(b, e) == IF e = 0 THEN 1 ELSE b * Pow(b, e - 1)

\* int.to_bytes(len, 'big')
ToBytes(n, len) == [i \in 1..len |-> (n \div Pow(ByteBase, len - i)) % ByteBase]

\* rlp's encoding of a Python int: big-endian without leading zero bytes, the
\* empty string for zero
RECURSIVE IntToBigEndian(_)
IntToBigEndian(n) ==
    IF n = 0 THEN <<>> ELSE IntToBigEndian(n \div ByteBase) \o <<n % ByteBase>>

\* The Python values handed to rlp.encode: an int, a bytes object, a list.
\* A bytes object whose content the model does not look into (an address, the
\* call data) is one opaque element.
PyInt(n) == [py |-> "int", val |-> n]
PyBytes(b) == [py |-> "bytes", val |-> b]
PyList == [py |-> "list", val |-> <<>>]

\* rlp.encode of one value: a string item or a list item
RlpItem(x) ==
    CASE x.py = "int" -> [list |-> FALSE, str |-> IntToBigEndian(x.val)]
      [] x.py = "bytes" -> [list |-> FALSE, str |-> x.val]
      [] OTHER -> [list |-> TRUE, str |-> <<>>]

\* b'\x02' + rlp.encode(tx_fields)
TypedRlpEncode(tx_fields) ==
    [type |-> 2, payload |-> [i \in 1..Len(tx_fields) |-> RlpItem(tx_fields[i])]]

\* tx_fields of compute_tx_hash, as the values rlp.encode is given
UnsignedTxFields(tx) ==
    <<PyInt(tx.chainId), PyInt(tx.nonce), PyInt(tx.maxPriorityFeePerGas),
      PyInt(tx.maxFeePerGas), PyInt(tx.gas), PyBytes(<<tx.to>>), PyInt(tx.value),
      PyBytes(<<tx.data>>), PyList>>

\* the bytes compute_tx_hash hashes
SigningPayload(tx) == TypedRlpEncode(UnsignedTxFields(tx))

\* tx_fields of serialize_signed_tx: v = recid, and r and s as 32 bytes each
SignedTxFields(tx, signature) ==
    <<PyInt(tx.chainId), PyInt(tx.nonce), PyInt(tx.maxPriorityFeePerGas),
      PyInt(tx.maxFeePerGas), PyInt(tx.gas), PyBytes(<<tx.to>>), PyInt(tx.value),
      PyBytes(<<tx.data>>), PyList,
      PyInt(signature.recid),
      PyBytes(ToBytes(signature.r, SigLen)),
      PyBytes(ToBytes(signature.s, SigLen))>>

\* the bytes serialize_signed_tx returns
SignedTxBytes(tx, signature) == TypedRlpEncode(SignedTxFields(tx, signature))

\* The dict a tool returns, by its keys.
ResultKeys(res) ==
    CASE res \in {"none", "raised"} -> {}
      [] res = "balance" -> {"address", "balance_eth", "balance_wei", "low_balance_warning"}
      [] res = "state_anchor" ->
            {"token_id", "state_hash", "state_uri", "timestamp", "timestamp_human"}
      [] res = "success" ->
            {"success", "tx_hash", "block_number", "gas_used", "explorer_url"}
      [] res = "reverted" -> {"error", "receipt"}
      [] OTHER -> {"error"}

\* What the "error" of a returned dict is made of: a fixed text, a text with
\* the oracle's result in it, or the text of the exception that was caught.
ErrorDetail(res) ==
    CASE res \in {"none", "raised", "success", "balance", "state_anchor"} -> "none"
      [] res \in {"auth_failed", "bad_state_hash", "reverted"} -> "text"
      [] res = "sign_failed" -> "sign_result"
      [] OTHER -> "str(e)"

---------------------------------------------------------------------------
(* LitSignerService: the session cache *)

\* faulty variant: the cached session is never trusted
SessionStaleAlways(t) == TRUE

\* the condition under which ensure_connected asks for new session sigs
SessionStale(t) ==
    session_sigs = NoSigs \/ (session_expiry # NoExpiry /\ t >= session_expiry)

\* session sigs as get_session_sigs issues them at time t
NewSessionSigs(t, c) == [issued |-> t, expires |-> t + SessionMinutes, via |-> c.id]

\* faulty variant: refresh at the actual expiry, with no margin
NewSessionExpiryNoMargin(t) == t + SessionMinutes

\* the session_expiry stored with session sigs obtained at time t
NewSessionExpiry(t) == t + RefreshMinutes

\* The oracle grants session sigs only to a client that is connected and holds
\* an auth token.
Granted(c, authOk) == authOk /\ c.connected /\ c.token

\* faulty variant: a refused get_session_sigs is not raised
EnsureConnectedSwallow(connOk, tokOk, authOk) ==
    LET fresh == client = NoClient
        c == IF fresh
             THEN [made |-> TRUE, connected |-> connOk, token |-> connOk /\ tokOk,
                   id |-> handles + 1]
             ELSE client
        stale == SessionStale(now)
        got == stale /\ Granted(c, authOk)
    IN  [client |-> c,
         session_sigs |-> IF got THEN NewSessionSigs(now, c) ELSE session_sigs,
         session_expiry |-> IF got THEN NewSessionExpiry(now) ELSE session_expiry,
         connects |-> IF fresh THEN 1 ELSE 0,
         auths |-> IF stale THEN 1 ELSE 0,
         raised |-> IF fresh /\ ~(connOk /\ tokOk) THEN "exc_connect" ELSE "none"]

\* ensure_connected, given what the Lit client answers: connOk (new and connect
\* return), tokOk (the auth token is set), authOk (get_session_sigs reports
\* success).  The result is the service state it leaves, the calls it made and
\* the exception it raised.  self.client is assigned before connect is called,
\* so a connect or set_auth_token that raises leaves the handle in place.
EnsureConnected(connOk, tokOk, authOk) ==
    LET fresh == client = NoClient
        c == IF fresh
             THEN [made |-> TRUE, connected |-> connOk, token |-> connOk /\ tokOk,
                   id |-> handles + 1]
             ELSE client
        kept == [client |-> c, session_sigs |-> session_sigs,
                 session_expiry |-> session_expiry,
                 connects |-> IF fresh THEN 1 ELSE 0, auths |-> 0, raised |-> "none"]
    IN  IF fresh /\ ~(connOk /\ tokOk)
        THEN [kept EXCEPT !.raised = "exc_connect"]
        ELSE IF ~SessionStale(now)
        THEN kept
        ELSE IF ~Granted(c, authOk)
        THEN [kept EXCEPT !.auths = 1, !.raised = "exc_session"]
        ELSE [kept EXCEPT !.auths = 1,
                          !.session_sigs = NewSessionSigs(now, c),
                          !.session_expiry = NewSessionExpiry(now)]

---------------------------------------------------------------------------
(* The chain node *)

\* eth_sendRawTransaction accepts a transaction whose signature is the sender's
\* over that transaction, whose nonce is not used yet, and that does not
\* collide with a pending transaction of the same nonce and fee.
Pending == {q \in Req : req[q].chain = "pending"}

\* eth_call / eth_estimateGas of a transaction against the chain's present
\* state: anchorState reverts for a sender that is not an authorized executor.
Simulate(tx) == authorized

\* faulty variant: anchorState stores the hash of the empty commitment
AnchorStateBlank(tx) == ZeroBytes

\* what the contract's anchorState stores as the token's state hash
AnchorState(tx) == tx.data[3]

NodeAccepts(signed) ==
    /\ signed.sig.signer = PKP_ETH_ADDRESS
    /\ signed.sig.digest = ComputeTxHash(signed.tx)
    /\ signed.tx.nonce >= chainNonce
    /\ \A q \in Pending : req[q].sent.tx.nonce # signed.tx.nonce

\* the exception send_raw_transaction raises for a transaction the node
\* refuses: "nonce too low" for a nonce that is used up, another one otherwise
SendError(signed) ==
    IF /\ signed.sig.signer = PKP_ETH_ADDRESS
       /\ signed.sig.digest = ComputeTxHash(signed.tx)
       /\ signed.tx.nonce < chainNonce
    THEN "exc_nonce"
    ELSE "exc_send"

---------------------------------------------------------------------------
(* The tools: anchor_state_via_pkp and anchor_action_via_pkp *)

\* The event loop.  sign_with_pkp awaits only ensure_connected, which awaits
\* nothing, so from the session check to the return of execute_js the request
\* holds the loop and no other coroutine runs.
HoldsLoop(q) == req[q].pc = "exec"

\* faulty variant: sign_with_pkp can be preempted between the session check and
\* the oracle call
CanRunPreempting(r) == TRUE

\* request r can take a step: the server runs and no other request holds the loop
CanRun(r) == server = "serving" /\ \A q \in Req \ {r} : ~HoldsLoop(q)

\* faulty variant: a refused broadcast is answered by broadcasting again
ReturnResubmit(q, res) ==
    IF res = "exc_send" THEN [q EXCEPT !.pc = "send"]
    ELSE [q EXCEPT !.pc = "done", !.result = res, !.tx = NoTx, !.sig = NoSig,
                   !.tool = Dead, !.state_hash = NoHash,
                   !.anchored = IF res = "success" THEN q.tx.data[3] ELSE Dead,
                   !.api_key = IF res = "auth_failed" THEN @ ELSE Dead,
                   !.sent = IF q.chain = "pending" THEN @ ELSE NoSent]

\* return: the locals go, the record of what the request did stays
Return(q, res) ==
    [q EXCEPT !.pc = "done", !.result = res, !.tx = NoTx, !.sig = NoSig,
              !.tool = Dead, !.state_hash = NoHash,
              !.anchored = IF res = "success" THEN q.tx.data[3] ELSE Dead,
              !.api_key = IF res = "auth_failed" THEN @ ELSE Dead,
              !.sent = IF q.chain = "pending" THEN @ ELSE NoSent]

\* faulty variant: an exception of the signing call is answered by signing again
ExceptRetry(q, kind) ==
    IF kind = "exc_sign" THEN [q EXCEPT !.pc = "sign"] ELSE Return(q, kind)

\* faulty variant: the exception leaves the tool, which returns no dict
ExceptEscapes(q, kind) == Return(q, "raised")

\* the tools' except clause: the exception becomes the error that is returned
Except(q, kind) == Return(q, kind)

\* faulty variant: the nonce is read again when the transaction is serialized
TxRebuilt(r) == [req[r].tx EXCEPT !.nonce = chainNonce]

\* the transaction handed to serialize_signed_tx: the local tx that was hashed
TxToSerialize(r) == req[r].tx

\* From the call to the end of input validation: the API-key check, and for
\* anchor_state_via_pkp the check of state_hash and bytes.fromhex.  Requests are numbered in the
\* order of their calls.
Call(r, tool, api_key, state_hash) ==
    /\ req[r].pc = "idle"
    /\ CanRun(r)
    /\ \A q \in Req : q < r => req[q].pc # "idle"
    /\ LET q == [req[r] EXCEPT !.tool = tool, !.api_key = api_key,
                               !.state_hash = state_hash]
       IN  req' = [req EXCEPT ![r] =
                IF ~VerifyApiKey(EffectiveKey(api_key))
                THEN Return(q, "auth_failed")
                ELSE IF tool = "anchor_state_via_pkp" /\ ~ValidStateHash(state_hash)
                THEN Return(q, "bad_state_hash")
                ELSE IF tool = "anchor_state_via_pkp" /\ FromHexRaises(state_hash)
                THEN Except(q, "exc_hex")
                ELSE [q EXCEPT !.pc = "build"]]
    /\ UNCHANGED <<script, handles, calc, server, authorized, mcp_api_key, now, client, session_sigs,
                 session_expiry, chainNonce, anchor>>

\* build_anchor_transaction, which reads the nonce and the base fee before it
\* encodes the call, and compute_tx_hash.  rpcOk: the nonce and base-fee
\* reads return; base_fee: the latest block's baseFeePerGas.
Build(r, rpcOk, base_fee) ==
    /\ req[r].pc = "build"
    /\ CanRun(r)
    /\ LET q == [req[r] EXCEPT !.nonceReads = @ + 1, !.tool = Dead,
                               !.api_key = Dead, !.state_hash = NoHash]
       IN  req' = [req EXCEPT ![r] =
                IF ~rpcOk
                THEN Except(q, "exc_rpc")
                ELSE IF EncodeAbiRaises(FromHex(req[r].state_hash))
                THEN Except(q, "exc_abi")
                ELSE [q EXCEPT !.pc = "sign",
                               !.tx = BuildAnchorTransaction(2, FromHex(req[r].state_hash), "uri",
                                                             chainNonce, base_fee)]]
    /\ UNCHANGED <<script, handles, calc, server, authorized, mcp_api_key, now, client, session_sigs,
                 session_expiry, chainNonce, anchor>>

\* faulty variant: the read-only tools ask for the API key as the signing tools do
ReadOnlyResultGated(tool, rpcOk) ==
    IF ~VerifyApiKey(EffectiveKey(None)) THEN "auth_failed"
    ELSE IF ~rpcOk THEN "exc_read"
    ELSE IF tool = "get_pkp_balance" THEN "balance" ELSE "state_anchor"

\* what get_pkp_balance and verify_state_anchor return: the dict with what
\* they read, or the error of a read that raised.  rpcOk: the read returns.
ReadOnlyResult(tool, rpcOk) ==
    IF ~rpcOk THEN "exc_read"
    ELSE IF tool = "get_pkp_balance" THEN "balance" ELSE "state_anchor"

\* get_pkp_balance and verify_state_anchor: one read of the chain and the
\* return, with no await in between.  They take no api_key.
ReadOnly(r, tool, rpcOk) ==
    /\ req[r].pc = "idle"
    /\ CanRun(r)
    /\ \A q \in Req : q < r => req[q].pc # "idle"
    /\ req' = [req EXCEPT ![r] = [@ EXCEPT !.pc = "done", !.tool = tool,
                                           !.result = ReadOnlyResult(tool, rpcOk)]]
    /\ UNCHANGED <<script, handles, calc, server, authorized, mcp_api_key, now, client, session_sigs,
                 session_expiry, chainNonce, anchor>>

\* what execute_js answers: a signature of the PKP's key, a signature of another
\* key, a signature entry without usable fields, a result without the
\* signature, or an exception
ExecOutcomes == {"sig_pkp", "sig_other", "sig_malformed", "negative", "raise"}

\* faulty variant: the result is not looked at
HasSignatureUnchecked(out) == TRUE

\* sign_result.get('signatures', {}).get('anchorStateSig') is truthy
HasSignature(out) == out \in {"sig_pkp", "sig_other", "sig_malformed"}

\* sign_with_pkp up to the oracle call: ensure_connected.
Ensure(r, connOk, tokOk, authOk) ==
    /\ req[r].pc = "sign"
    /\ CanRun(r)
    /\ LET e == EnsureConnected(connOk, tokOk, authOk)
           answer == IF e.auths = 0 THEN "none"
                     ELSE IF Granted(e.client, authOk) THEN "granted" ELSE "refused"
           q == [req[r] EXCEPT !.connects = @ + e.connects, !.auths = @ + e.auths,
                               !.authAnswer = answer]
       IN  /\ client' = e.client
           /\ session_sigs' = e.session_sigs
           /\ session_expiry' = e.session_expiry
           /\ req' = [req EXCEPT ![r] =
                 IF e.raised # "none" THEN Except(q, e.raised)
                 ELSE [q EXCEPT !.pc = "exec"]]
           /\ handles' = handles + e.connects
    /\ UNCHANGED <<script, calc, server, authorized, mcp_api_key, now, chainNonce, anchor>>

\* execute_js with the session sigs the service holds, the return of
\* sign_with_pkp and the tool's check of its result.  out: what execute_js
\* answers.
Execute(r, out) ==
    /\ req[r].pc = "exec"
    /\ CanRun(r)
    /\ LET x == [req[r] EXCEPT !.execs = @ + 1,
                               !.execAnswer = IF out \in {"sig_pkp", "sig_other"}
                                              THEN "signature" ELSE out]
       IN  req' = [req EXCEPT ![r] =
                 IF out = "raise" THEN Except(x, "exc_sign")
                 ELSE IF ~HasSignature(out) THEN Return(x, "sign_failed")
                 ELSE [x EXCEPT !.pc = "send",
                         !.sig = [digest |-> ComputeTxHash(req[r].tx),
                                  signer |-> CASE out = "sig_pkp" -> PKP_ETH_ADDRESS
                                               [] out = "sig_malformed" -> None
                                               [] OTHER -> OtherAddress,
                                  by |-> r]]]
    /\ UNCHANGED <<script, handles, calc, server, authorized, mcp_api_key, now, client, session_sigs,
                 session_expiry, chainNonce, anchor>>

\* what a request at "send" hands to send_raw_transaction
Broadcast(r) == SerializeSignedTx(TxToSerialize(r), req[r].sig)

\* serialize_signed_tx and send_raw_transaction.  rpcOk: the node is reached.
\* A signature that cannot be serialized raises before the node is called.
Send(r, rpcOk) ==
    /\ req[r].pc = "send"
    /\ CanRun(r)
    /\ LET signed == Broadcast(r)
           q == [req[r] EXCEPT !.sends = @ + 1]
       IN  req' = [req EXCEPT ![r] =
                 IF SerializeRaises(req[r].sig) THEN Except(req[r], "exc_serialize")
                 ELSE IF ~rpcOk THEN Except(q, "exc_send")
                 ELSE IF NodeAccepts(signed)
                 THEN [q EXCEPT !.pc = "wait", !.chain = "pending", !.sent = signed]
                 ELSE Except(q, SendError(signed))]
    /\ UNCHANGED <<script, handles, calc, server, authorized, mcp_api_key, now, client, session_sigs,
                 session_expiry, chainNonce, anchor>>

\* faulty variant: any receipt counts as success
ReceiptResultAny(status) == "success"

\* the tools' check of receipt['status']
ReceiptResult(status) == IF status = "mined_ok" THEN "success" ELSE "reverted"

\* faulty variant: wait_for_transaction_receipt without a timeout
WaitForReceipt(r) ==
    /\ req[r].pc = "wait"
    /\ CanRun(r)
    /\ req[r].chain # "pending"
    /\ req' = [req EXCEPT ![r] = Return(@, ReceiptResult(@.chain))]
    /\ UNCHANGED <<script, handles, calc, server, authorized, mcp_api_key, now, client, session_sigs,
                 session_expiry, chainNonce, anchor>>

\* wait_for_transaction_receipt, which raises when no receipt appears in time,
\* and the return.
Wait(r) ==
    /\ req[r].pc = "wait"
    /\ CanRun(r)
    /\ req' = [req EXCEPT ![r] =
                 IF @.chain = "pending" THEN Except(@, "exc_timeout")
                 ELSE Return(@, ReceiptResult(@.chain))]
    /\ UNCHANGED <<script, handles, calc, server, authorized, mcp_api_key, now, client, session_sigs,
                 session_expiry, chainNonce, anchor>>

---------------------------------------------------------------------------
(* The environment *)

\* The program sees the chain and the clock only in its own calls, and none of
\* them lies between the session check and the return of execute_js: what the
\* chain and the clock do meanwhile is placed after that return.
LoopFree == \A q \in Req : ~HoldsLoop(q)

\* The chain includes a pending transaction in a block.
Mine(r, ok) ==
    /\ req[r].chain = "pending"
    /\ server = "serving" /\ LoopFree
    /\ req[r].sent.tx.nonce = chainNonce
    /\ ok => Simulate(req[r].sent.tx)
    /\ chainNonce' = chainNonce + 1
    /\ anchor' = IF ok THEN AnchorState(req[r].sent.tx) ELSE anchor
    /\ req' = [req EXCEPT ![r].chain = IF ok THEN "mined_ok" ELSE "mined_reverted",
                          ![r].sent = NoSent]
    /\ UNCHANGED <<script, handles, calc, server, authorized, mcp_api_key, now, client, session_sigs, session_expiry>>

\* The clock advances.  The program reads it only in ensure_connected, and
\* compares it only with the expiry of a session it holds: the time that passes
\* is counted from the first session on, where a request is about to call
\* sign_with_pkp.
Tick ==
    /\ now + TickMinutes <= MaxTicks * TickMinutes
    /\ server = "serving" /\ LoopFree
    /\ session_sigs # NoSigs
    /\ \E r \in Req : req[r].pc = "sign"
    /\ now' = now + TickMinutes
    /\ UNCHANGED <<script, handles, calc, server, authorized, mcp_api_key, client, session_sigs, session_expiry,
                 chainNonce, anchor, req>>

---------------------------------------------------------------------------

\* faulty variant: disconnect drops the client handle and keeps the session sigs
DisconnectKeepSigs(discOk) ==
    [client |-> NoClient, session_sigs |-> session_sigs]

\* LitSignerService.disconnect: what it leaves of the client handle and the
\* session sigs.  discOk: client.disconnect returns (an exception of it is
\* swallowed).
Disconnect(discOk) ==
    IF client # NoClient
    THEN [client |-> NoClient, session_sigs |-> NoSigs]
    ELSE [client |-> client, session_sigs |-> session_sigs]

\* how the body of the server's lifespan context ends: it returns, or an
\* exception or a cancellation is thrown into the lifespan generator at its yield
ShutdownPaths == {"return", "throw"}

\* The server stops: the lifespan context is left.  Its cleanup follows the
\* yield with no try/finally, so it runs only when the body returns.
Shutdown(path, discOk) ==
    /\ server = "serving"
    /\ LoopFree
    /\ server' = "stopped"
    /\ LET d == Disconnect(discOk)
       IN  /\ client' = IF path = "return" THEN d.client ELSE client
           /\ session_sigs' = IF path = "return" THEN d.session_sigs ELSE session_sigs
    /\ UNCHANGED <<script, handles, calc, authorized, anchor, mcp_api_key, now, session_expiry,
                   chainNonce, req>>

\* The server has started; the PKP address is an authorized executor of the
\* agent's account, as the deployment sets it up.
Init ==
    /\ script = NoScript
    /\ handles = 0
    /\ calc = NoCalc
    /\ server = "serving"
    /\ authorized = TRUE
    /\ anchor = ZeroBytes
    /\ mcp_api_key \in {None, GoodKey}
    /\ now = 0
    /\ client = NoClient
    /\ session_sigs = NoSigs
    /\ session_expiry = NoExpiry
    /\ chainNonce = 0
    /\ req = [r \in Req |-> IdleReq]

\* The arguments of a call: state_hash is an argument of anchor_state_via_pkp;
\* anchor_action_via_pkp computes the hash it anchors.
HashArgs(tool) == IF tool = "anchor_state_via_pkp" THEN StateHashes ELSE {CombinedHash}

\* What the Lit client answers during one ensure_connected, each answer drawn
\* only where the code asks for it: connect and set_auth_token when there is
\* no client, get_session_sigs when the session is stale.
LitAnswers ==
    {a \in [conn : BOOLEAN, tok : BOOLEAN, auth : BOOLEAN] :
        /\ (client # NoClient => a.conn /\ a.tok)
        /\ (~a.conn => ~a.tok)
        /\ (~SessionStale(now) => a.auth)}

Next ==
    \/ \E r \in Req, tool \in ToolNames, k \in ApiKeys :
          \E h \in HashArgs(tool) : Call(r, tool, k, h)
    \/ \E r \in Req, tool \in ReadOnlyTools, rpcOk \in BOOLEAN : ReadOnly(r, tool, rpcOk)
    \/ \E r \in Req, rpcOk \in BOOLEAN, bf \in BaseFees : Build(r, rpcOk, bf)
    \/ \E r \in Req, a \in LitAnswers : Ensure(r, a.conn, a.tok, a.auth)
    \/ \E r \in Req, out \in ExecOutcomes : Execute(r, out)
    \/ \E r \in Req, rpcOk \in BOOLEAN : Send(r, rpcOk)
    \/ \E r \in Req : Wait(r)
    \/ \E r \in Req, ok \in BOOLEAN : Mine(r, ok)
    \/ Tick

Spec == Init /\ [][Next]_vars

\* The steps of one request after its call.  Each of them ends with a call that
\* returns (a chain RPC, the Lit client) or with a wait that is cut off by its
\* timeout, and the event loop resumes every coroutine that is ready.
Step(r) ==
    \/ \E rpcOk \in BOOLEAN, bf \in BaseFees : Build(r, rpcOk, bf)
    \/ \E a \in LitAnswers : Ensure(r, a.conn, a.tok, a.auth)
    \/ \E out \in ExecOutcomes : Execute(r, out)
    \/ \E rpcOk \in BOOLEAN : Send(r, rpcOk)
    \/ Wait(r)

\* the server with every call of a request returning and every ready
\* coroutine resumed
FairSpec == Init /\ [][Next]_vars /\ \A r \in Req : WF_vars(Step(r))

\* The server from start to stop, on a chain where the PKP address may or may
\* not be an authorized executor, with callers that also pass state hashes of
\* the right length that are not hex.
InitAnyChain ==
    /\ script = NoScript
    /\ handles = 0
    /\ calc = NoCalc
    /\ server = "serving"
    /\ authorized \in BOOLEAN
    /\ anchor = ZeroBytes
    /\ mcp_api_key \in {None, GoodKey}
    /\ now = 0
    /\ client = NoClient
    /\ session_sigs = NoSigs
    /\ session_expiry = NoExpiry
    /\ chainNonce = 0
    /\ req = [r \in Req |-> IdleReq]

NextLife ==
    \/ Next
    \/ \E r \in Req, k \in ApiKeys, h \in MalformedHashes :
          Call(r, "anchor_state_via_pkp", k, h)
    \/ \E path \in ShutdownPaths, discOk \in BOOLEAN : Shutdown(path, discOk)

LifeSpec == InitAnyChain /\ [][NextLife]_vars

---------------------------------------------------------------------------
(* LitSignerService, its methods called in any order *)

\* sign_with_pkp: ensure_connected and, when that returns, execute_js on
\* self.client with self.session_sigs
SignWithPkp(connOk, tokOk, authOk) ==
    /\ client = NoClient => handles < MaxHandles
    /\ LET e == EnsureConnected(connOk, tokOk, authOk)
       IN  /\ client' = e.client
           /\ session_sigs' = e.session_sigs
           /\ session_expiry' = e.session_expiry
           /\ handles' = handles + e.connects
           /\ calc' = IF e.raised # "none"
                      THEN [op |-> "sign_with_pkp", raised |-> e.raised, handle |-> 0, via |-> 0]
                      ELSE [op |-> "sign_with_pkp", raised |-> "none",
                            handle |-> e.client.id, via |-> e.session_sigs.via]
    /\ UNCHANGED <<script, server, authorized, anchor, mcp_api_key, now, chainNonce, req>>

\* disconnect
ServiceDisconnect(discOk) ==
    /\ LET d == Disconnect(discOk)
       IN  /\ client' = d.client
           /\ session_sigs' = d.session_sigs
    /\ UNCHANGED <<script, handles, calc, server, authorized, anchor, mcp_api_key, now,
                   session_expiry, chainNonce, req>>

\* time passes between two calls
Advance ==
    /\ now + TickMinutes <= MaxTicks * TickMinutes
    /\ now' = now + TickMinutes
    /\ UNCHANGED <<script, handles, calc, server, authorized, anchor, mcp_api_key, client,
                   session_sigs, session_expiry, chainNonce, req>>

NextService ==
    \/ \E a \in LitAnswers : SignWithPkp(a.conn, a.tok, a.auth)
    \/ \E discOk \in BOOLEAN : ServiceDisconnect(discOk)
    \/ Advance

ServiceSpec == Init /\ [][NextService]_vars

---------------------------------------------------------------------------
(* The standalone scripts: LitSigner of sign_transaction.py, main of
   ouroboros_test.py *)

NoSignerSigs == [issued |-> -1, expires |-> -1]
NoUse == [at |-> -1, expires |-> -1]

\* LitSigner.__init__: no client, no session sigs; used is the last call of
\* execute_js, the time of the call and the expiration of the sigs it passed
NewSigner ==
    [pc |-> "LitSigner", client |-> FALSE, session_sigs |-> NoSignerSigs,
     used |-> NoUse, answer |-> "none"]

\* LitSigner.get_session_sigs at time t, with the default expiration_minutes
GetSessionSigs(signer, t) ==
    [signer EXCEPT !.client = TRUE,
                   !.session_sigs = [issued |-> t, expires |-> t + SignerSessionMinutes]]

SignHashAnswers == {"signature", "failure"}

\* LitSigner.sign_hash: session sigs are fetched when there are none, and
\* execute_js is called with the ones held.  out: what the Lit Action answers.
SignHash(out) ==
    /\ script.pc = "LitSigner"
    /\ LET signer == IF script.session_sigs = NoSignerSigs
                     THEN GetSessionSigs(script, now)
                     ELSE script
       IN  script' = [signer EXCEPT !.used = [at |-> now,
                                              expires |-> signer.session_sigs.expires],
                                    !.answer = out]
    /\ UNCHANGED <<handles, calc, server, authorized, anchor, mcp_api_key, now, client,
                   session_sigs, session_expiry, chainNonce, req>>

\* time passes between two calls of sign_hash
ScriptTick ==
    /\ script.pc = "LitSigner"
    /\ now + ScriptTickMinutes <= MaxScriptTicks * ScriptTickMinutes
    /\ now' = now + ScriptTickMinutes
    /\ UNCHANGED <<script, handles, calc, server, authorized, anchor, mcp_api_key, client,
                   session_sigs, session_expiry, chainNonce, req>>

\* main of ouroboros_test.py from the creation of the Lit client on:
\* connected says that client.connect() has been called, disconnects counts
\* the calls of client.disconnect(), exit and at say how and where main ended
MainStart ==
    [pc |-> "connect", connected |-> FALSE, disconnects |-> 0, exit |-> "none",
     at |-> "none"]

\* how a statement of main can end: it returns what is hoped for, it returns a
\* negative result, or it raises
MainOutcomes(pc) ==
    CASE pc \in {"connect", "set_auth_token", "serialize", "send"} -> {"ok", "raise"}
      [] pc \in {"get_session_sigs", "sign", "wait"} -> {"ok", "fail", "raise"}
      [] OTHER -> {}

\* main ends: by return or by an exception that leaves it, after disc calls of
\* client.disconnect()
MainExit(m, how, disc) ==
    [m EXCEPT !.pc = "exited", !.exit = how, !.at = m.pc, !.disconnects = @ + disc]

\* one statement of main and what follows from its outcome
MainStep(m, out) ==
    CASE m.pc = "connect" ->
            IF out = "ok" THEN [m EXCEPT !.pc = "set_auth_token", !.connected = TRUE]
            ELSE MainExit([m EXCEPT !.connected = TRUE], "raise", 0)
      [] m.pc = "set_auth_token" ->
            IF out = "ok" THEN [m EXCEPT !.pc = "get_session_sigs"]
            ELSE MainExit(m, "raise", 0)
      [] m.pc = "get_session_sigs" ->
            IF out = "ok" THEN [m EXCEPT !.pc = "sign"]
            ELSE IF out = "fail" THEN MainExit(m, "return", 0)
            ELSE MainExit(m, "raise", 0)
      [] m.pc = "sign" ->
            IF out = "ok" THEN [m EXCEPT !.pc = "serialize"]
            ELSE IF out = "fail" THEN MainExit(m, "return", 1)
            ELSE MainExit(m, "raise", 0)
      [] m.pc = "serialize" ->
            IF out = "ok" THEN [m EXCEPT !.pc = "send"]
            ELSE MainExit(m, "raise", 0)
      [] m.pc = "send" ->
            IF out = "ok" THEN [m EXCEPT !.pc = "wait"]
            ELSE MainExit(m, "return", 1)
      [] OTHER -> MainExit(m, "return", 1)

Main(out) ==
    /\ out \in MainOutcomes(script.pc)
    /\ script' = MainStep(script, out)
    /\ UNCHANGED <<handles, calc, server, authorized, anchor, mcp_api_key, now, client,
                   session_sigs, session_expiry, chainNonce, req>>

InitScript ==
    /\ script = NewSigner \/ script = MainStart
    /\ handles = 0
    /\ calc = NoCalc
    /\ server = "serving"
    /\ authorized = TRUE
    /\ anchor = ZeroBytes
    /\ mcp_api_key = None
    /\ now = 0
    /\ client = NoClient
    /\ session_sigs = NoSigs
    /\ session_expiry = NoExpiry
    /\ chainNonce = 0
    /\ req = [r \in Req |-> IdleReq]

NextScript ==
    \/ \E out \in SignHashAnswers : SignHash(out)
    \/ ScriptTick
    \/ \E out \in {"ok", "fail", "raise"} : Main(out)

ScriptSpec == InitScript /\ [][NextScript]_vars

---------------------------------------------------------------------------
(* Documents, their serialization and their hashes *)

\* A dict is the sequence of its items in insertion order.  The value of an
\* item is a scalar (a string, a number, a list taken as a whole) or a dict.
Item(k, v) == [key |-> k, dict |-> FALSE, val |-> v]
Nested(k, d) == [key |-> k, dict |-> TRUE, val |-> d]

\* the keys of the documents, in the order sorted() puts them
KeyOrder ==
    <<"action_subtype", "agent", "agent_id", "anchor_type",
      "archival_memory", "char_count", "collaborators", "content_type",
      "count", "created_at", "creator", "description", "entries",
      "export_timestamp", "hash", "id", "memory_blocks", "name", "persona",
      "schema_version", "size_bytes", "state_hash_at_creation", "timestamp",
      "timestamp_iso", "token_id", "value", "work_product">>

Rank(k) == CHOOSE i \in 1..Len(KeyOrder) : KeyOrder[i] = k

Without(items, m) == [i \in 1..(Len(items) - 1) |-> IF i < m THEN items[i] ELSE items[i + 1]]

\* sorted(dct.items()) of json's encoder
RECURSIVE SortItems(_)
SortItems(items) ==
    IF Len(items) = 0 THEN <<>>
    ELSE LET m == CHOOSE i \in 1..Len(items) :
                     \A j \in 1..Len(items) : Rank(items[i].key) <= Rank(items[j].key)
         IN  <<items[m]>> \o SortItems(Without(items, m))

\* json.dumps(d, sort_keys=..., separators=(item_sep, key_sep)): the text as
\* the sequence of its tokens.  sort_keys is handed down to every nested dict.
RECURSIVE Dumps(_, _, _, _)
RECURSIVE DumpItems(_, _, _, _)
DumpItems(items, sort_keys, item_sep, key_sep) ==
    IF Len(items) = 0 THEN <<>>
    ELSE LET it == Head(items)
             value == IF it.dict THEN Dumps(it.val, sort_keys, item_sep, key_sep)
                      ELSE <<it.val>>
         IN  <<it.key, key_sep>> \o value \o
             (IF Len(items) > 1
                THEN <<item_sep>> \o DumpItems(Tail(items), sort_keys, item_sep, key_sep)
                ELSE <<>>)

\* faulty variant: only the keys of the outermost dict are sorted
DumpsShallowSort(d, sort_keys, item_sep, key_sep) ==
    <<"{">> \o DumpItems(IF sort_keys THEN SortItems(d) ELSE d, FALSE, item_sep, key_sep)
            \o <<"}">>

Dumps(d, sort_keys, item_sep, key_sep) ==
    <<"{">> \o DumpItems(IF sort_keys THEN SortItems(d) ELSE d, sort_keys, item_sep, key_sep)
            \o <<"}">>

\* Keccak-256 and SHA-256 of a text, both taken as injective
Keccak(text) == [alg |-> "keccak256", text |-> text]
Sha256(text) == [alg |-> "sha256", text |-> text]

\* hash_state of the integration scripts
HashState(state) == Keccak(Dumps(state, TRUE, ",", ":"))

\* the hash anchor_my_state takes of the state it built
ToolStateHash(state) == Keccak(Dumps(state, TRUE, ",", ":"))

\* the hash SelfSovereignWallet.anchor_state takes of state_data
WalletStateHash(state_data) == Sha256(Dumps(state_data, TRUE, ", ", ": "))

\* the hash the PKP anchoring test scripts take of cognitive_state
ScriptStateHash(cognitive_state) == Keccak(Dumps(cognitive_state, TRUE, ", ", ": "))

\* The state document of export_agent_state, with the order in which the keys
\* were inserted left open at each of its three levels.
Reverse(items) == [i \in 1..Len(items) |-> items[Len(items) + 1 - i]]

Ordered(items, flip) == IF flip THEN Reverse(items) ELSE items

AgentNames == {"Kieran", "Ada"}
BlockValues == {"I am Kieran", "I am Ada"}
Archives == {"[]", "[entry]"}
Clock == {"2025-12-21T21:30:00", "2025-12-21T21:30:01"}

FetchedData == [name : AgentNames, value : BlockValues, archive : Archives]

StateDocument(fetched, export_timestamp, flipTop, flipAgent, flipBlock) ==
    Ordered(<<Item("schema_version", "1.0.0"),
              Item("export_timestamp", export_timestamp),
              Nested("agent", Ordered(<<Item("id", "agent-1"),
                                        Item("name", fetched.name),
                                        Item("created_at", "2025-01-01")>>, flipAgent)),
              Nested("memory_blocks",
                     <<Nested("persona", Ordered(<<Item("value", fetched.value),
                                                   Item("description", "identity"),
                                                   Item("char_count", "len(value)")>>,
                                                 flipBlock))>>),
              Nested("archival_memory", <<Item("count", "len(entries)"),
                                          Item("entries", fetched.archive)>>)>>,
            flipTop)

\* the state dict anchor_my_state builds from what it fetched
AnchorMyStateDocument(fetched, export_timestamp, include_archival) ==
    <<Item("schema_version", "1.0.0"),
      Item("export_timestamp", export_timestamp),
      Nested("agent", <<Item("id", "agent-1"),
                        Item("name", fetched.name),
                        Item("created_at", "2025-01-01")>>),
      Nested("memory_blocks",
             <<Nested("persona", <<Item("value", fetched.value),
                                   Item("description", "identity"),
                                   Item("char_count", "len(value)")>>)>>)>>
    \o (IF include_archival
          THEN <<Nested("archival_memory", <<Item("count", "len(entries)"),
                                             Item("entries", fetched.archive)>>)>>
          ELSE <<>>)

\* anchor_action_via_pkp, steps 1 to 4
Contents == {"essay", "proof", "code"}
Descriptions == {"first draft", "final"}
Collaborators == {"[]", "[Flan]"}
Timestamps == {1766352600, 1766352601}
StateReads == {"raise", ZeroBytes, "ab"}

\* len(work_product_content.encode('utf-8'))
SizeBytes(content) == IF content = "code" THEN "4" ELSE "5"

\* datetime.utcfromtimestamp(timestamp).isoformat() + "Z"
IsoFormat(timestamp) == [iso |-> timestamp, suffix |-> "Z"]

ZeroSentinel == [prefix |-> "0x", len |-> HashLen, id |-> "00"]

\* faulty variant: no commitment at all when the read fails
CreatorStateHashNoSentinel(read) == IF read = "raise" THEN NoHash ELSE ToHex(read)

\* creator_state_hash: what getStateAnchor returned, or the zero hash when the
\* call raised
CreatorStateHash(read) == IF read = "raise" THEN ZeroSentinel ELSE ToHex(read)

\* faulty variant: the description is left out of the hashed document
ActionAnchorDataNoDescription(content, description, collaborators, creator_state_hash, timestamp) ==
    <<Item("anchor_type", "action"),
      Item("action_subtype", "authorship"),
      Nested("work_product", <<Item("hash", Keccak(content)),
                               Item("content_type", "text/markdown"),
                               Item("size_bytes", SizeBytes(content))>>),
      Nested("creator", <<Item("token_id", 2),
                          Item("agent_id", "agent-1"),
                          Item("name", "Kieran"),
                          Item("state_hash_at_creation", creator_state_hash)>>),
      Item("collaborators", collaborators),
      Item("timestamp", timestamp),
      Item("timestamp_iso", IsoFormat(timestamp))>>

ActionAnchorData(content, description, collaborators, creator_state_hash, timestamp) ==
    <<Item("anchor_type", "action"),
      Item("action_subtype", "authorship"),
      Nested("work_product", <<Item("hash", Keccak(content)),
                               Item("content_type", "text/markdown"),
                               Item("description", description),
                               Item("size_bytes", SizeBytes(content))>>),
      Nested("creator", <<Item("token_id", 2),
                          Item("agent_id", "agent-1"),
                          Item("name", "Kieran"),
                          Item("state_hash_at_creation", creator_state_hash)>>),
      Item("collaborators", collaborators),
      Item("timestamp", timestamp),
      Item("timestamp_iso", IsoFormat(timestamp))>>

ActionInputs ==
    [content : Contents, description : Descriptions, collaborators : Collaborators,
     read : StateReads, timestamp : Timestamps]

\* work_product_hash, creator_state_hash and combined_anchor_hash for one call
ComposeAction(in) ==
    LET creator_state_hash == CreatorStateHash(in.read)
        action_anchor_data == ActionAnchorData(in.content, in.description, in.collaborators,
                                               creator_state_hash, in.timestamp)
    IN  [work_product_hash |-> Keccak(in.content),
         creator_state_hash |-> creator_state_hash,
         combined_anchor_hash |-> Keccak(Dumps(action_anchor_data, TRUE, ",", ":"))]

---------------------------------------------------------------------------
(* The pure functions, each followed from its arguments to its result *)

\* the signatures the oracle can return for a digest
Signatures == [r : 1..(CurveOrder - 1), s : 1..(CurveOrder - 1), recid : {0, 1}]

BuildInputs ==
    [op : {"build_anchor_transaction"}, nonce : {0, 1}, base_fee : 0..MaxBaseFee]

\* build_anchor_transaction for a nonce and a base fee read from the chain
BuildTx ==
    /\ calc.op = "build_anchor_transaction"
    /\ calc' = [op |-> "built", base_fee |-> calc.base_fee,
                tx |-> BuildAnchorTransaction(2, FromHex(GoodHash), "uri",
                                              calc.nonce, calc.base_fee)]
    /\ UNCHANGED <<script, handles, server, authorized, anchor, mcp_api_key, now, client, session_sigs,
                   session_expiry, chainNonce, req>>

\* serialize_signed_tx for the built transaction and the oracle's signature
SerializeTx(signature) ==
    /\ calc.op = "built"
    /\ calc' = [op |-> "serialized", tx |-> calc.tx, signature |-> signature,
                raw |-> SignedTxBytes(calc.tx, signature)]
    /\ UNCHANGED <<script, handles, server, authorized, anchor, mcp_api_key, now, client, session_sigs,
                   session_expiry, chainNonce, req>>

\* hash_state of two state documents, and the other hashes of the first
HashStates ==
    /\ calc.op = "hash_state"
    /\ calc' = [op |-> "hashed", d1 |-> calc.d1, d2 |-> calc.d2,
                h1 |-> HashState(calc.d1), h2 |-> HashState(calc.d2),
                tool |-> ToolStateHash(calc.d1),
                wallet |-> WalletStateHash(calc.d1),
                script |-> ScriptStateHash(calc.d1)]
    /\ UNCHANGED <<script, handles, server, authorized, anchor, mcp_api_key, now, client, session_sigs,
                   session_expiry, chainNonce, req>>

\* anchor_my_state run twice over the same fetched data, the clock read at t1
\* in the first run and at t2 in the second
AnchorMyState ==
    /\ calc.op = "anchor_my_state"
    /\ LET state1 == AnchorMyStateDocument(calc.fetched, calc.t1, calc.include_archival)
           state2 == AnchorMyStateDocument(calc.fetched, calc.t2, calc.include_archival)
       IN  calc' = [op |-> "state_hashed", include_archival |-> calc.include_archival,
                    t1 |-> calc.t1, t2 |-> calc.t2, state |-> state1,
                    state_hash1 |-> ToolStateHash(state1),
                    state_hash2 |-> ToolStateHash(state2)]
    /\ UNCHANGED <<script, handles, server, authorized, anchor, mcp_api_key, now, client, session_sigs,
                   session_expiry, chainNonce, req>>

\* anchor_action_via_pkp up to the combined hash, for two calls
ComposeActions ==
    /\ calc.op = "anchor_action_via_pkp"
    /\ calc' = [op |-> "composed", a |-> calc.a, b |-> calc.b,
                ra |-> ComposeAction(calc.a), rb |-> ComposeAction(calc.b)]
    /\ UNCHANGED <<script, handles, server, authorized, anchor, mcp_api_key, now, client, session_sigs,
                   session_expiry, chainNonce, req>>

InitCalc ==
    /\ script = NoScript
    /\ handles = 0
    /\ \/ calc \in BuildInputs
       \/ \E f1 \in FetchedData, f2 \in FetchedData,
             o1 \in [top : BOOLEAN, agent : BOOLEAN, block : BOOLEAN],
             o2 \in [top : BOOLEAN, agent : BOOLEAN, block : BOOLEAN] :
             calc = [op |-> "hash_state",
                     d1 |-> StateDocument(f1, "2025-12-21T21:30:00", o1.top, o1.agent, o1.block),
                     d2 |-> StateDocument(f2, "2025-12-21T21:30:00", o2.top, o2.agent, o2.block)]
       \/ calc \in [op : {"anchor_my_state"}, fetched : FetchedData, t1 : Clock, t2 : Clock,
                     include_archival : BOOLEAN]
       \/ calc \in [op : {"anchor_action_via_pkp"}, a : ActionInputs, b : ActionInputs]
    /\ server = "serving"
    /\ authorized = TRUE
    /\ anchor = ZeroBytes
    /\ mcp_api_key = None
    /\ now = 0
    /\ client = NoClient
    /\ session_sigs = NoSigs
    /\ session_expiry = NoExpiry
    /\ chainNonce = 0
    /\ req = [r \in Req |-> IdleReq]

NextCalc ==
    \/ HashStates
    \/ AnchorMyState
    \/ ComposeActions
    \/ BuildTx
    \/ \E signature \in Signatures : SerializeTx(signature)

CalcSpec == InitCalc /\ [][NextCalc]_vars

---------------------------------------------------------------------------
(* Properties *)

\* a request has built its transaction and has neither submitted it nor failed
InFlight(r) == req[r].pc \in {"sign", "exec", "send"}

\* a request is in the step that runs ensure_connected for sign_with_pkp
SignCalled(r) == req[r].pc = "sign" /\ req'[r].pc # "sign"

NoCalls(q) ==
    q.nonceReads = 0 /\ q.connects = 0 /\ q.auths = 0 /\ q.execs = 0 /\ q.sends = 0

\* C1: build -> sign -> assemble -> submit is serialized per identity.  No
\* request fetches its nonce while a request that fetched one earlier has not
\* yet submitted its transaction, so no two requests between build and submit
\* carry the same nonce.
C1_BuildToSubmitSerialized ==
    \A r1, r2 \in Req :
        r1 # r2 =>
            /\ ~(InFlight(r1) /\ InFlight(r2))
            /\ (req[r1].tx # NoTx /\ req[r2].tx # NoTx) =>
                  req[r1].tx.nonce # req[r2].tx.nonce

\* C2: a call to a signing tool that supplies no api_key is rejected with an
\* authentication error, and it builds no transaction, requests no signature
\* and broadcasts nothing.
C2_MissingKeyRejected ==
    \A r \in Req :
        (req[r].pc # "idle" /\ req[r].api_key = None) =>
            /\ req[r].pc = "done"
            /\ req[r].result = "auth_failed"
            /\ NoCalls(req[r])

\* C3: with a key configured, a call whose api_key differs from MCP_API_KEY
\* returns an authentication error before any other step: no nonce read, no
\* session created or refreshed, no oracle call, no broadcast.
C3_DifferentKeyRejected ==
    \A r \in Req :
        (/\ req[r].pc # "idle"
         /\ mcp_api_key # None
         /\ req[r].api_key \in {EmptyKey, WrongKey}) =>
            /\ req[r].pc = "done"
            /\ req[r].result = "auth_failed"
            /\ NoCalls(req[r])

\* C4: fail secure.  While no MCP_API_KEY is configured every request to a
\* signing tool is rejected, whatever api_key it carries, and none reaches the
\* nonce read, the session, the signing oracle or the broadcast.
C4_FailSecure ==
    mcp_api_key = None =>
        \A r \in Req :
            /\ req[r].pc \in {"idle", "done"}
            /\ (req[r].pc = "done" /\ req[r].tool \notin ReadOnlyTools) =>
                   req[r].result = "auth_failed"
            /\ NoCalls(req[r])
            /\ client = NoClient /\ session_sigs = NoSigs

\* C4 witness: with no key configured, a call carrying the key the operator
\* meant to configure and a call carrying the empty key were both rejected.
C4_Witness ==
    /\ mcp_api_key = None
    /\ \E r1, r2 \in Req :
          /\ req[r1].result = "auth_failed" /\ req[r1].api_key = GoodKey
          /\ req[r2].result = "auth_failed" /\ req[r2].api_key = EmptyKey

\* C5: a signed transaction whose signature does not recover to the PKP
\* address is never handed to send_raw_transaction.
C5_MismatchNeverBroadcast ==
    [][\A r \in Req :
          req'[r].sends > req[r].sends =>
              Broadcast(r).sig.signer = PKP_ETH_ADDRESS]_vars

\* C6: every transaction handed to send_raw_transaction carries the signature
\* the oracle produced, for this request, over the digest of exactly that
\* transaction's unsigned fields; a request broadcasts once, with the one
\* signature it obtained.
C6_SignatureBoundToTx ==
    [][\A r \in Req :
          req'[r].sends > req[r].sends =>
              /\ Broadcast(r).sig.digest = ComputeTxHash(Broadcast(r).tx)
              /\ Broadcast(r).sig.by = r
              /\ req[r].sends = 0
              /\ req[r].execs = 1]_vars

\* C6 witness: two overlapping requests have both broadcast; the node took the
\* first and refused the second.
C6_Witness ==
    \E r1, r2 \in Req :
        /\ r1 # r2
        /\ req[r1].sends = 1 /\ req[r1].chain = "pending"
        /\ req[r2].sends = 1 /\ req[r2].result = "exc_send"

\* C7: every invocation of the signing oracle uses session sigs younger than
\* the 55-minute margin; a session at or past the margin is replaced before
\* the oracle is called.
C7_SessionInsideMargin ==
    [][\A r \in Req :
          req'[r].execs > req[r].execs =>
              /\ session_sigs' # NoSigs
              /\ now - session_sigs'.issued < RefreshMinutes
              /\ now < session_sigs'.expires]_vars

\* C7 witness: a request has just signed with session sigs that replaced an
\* earlier request's session, which had reached the margin.
C7_Witness ==
    \E r1, r2 \in Req :
        /\ r1 # r2
        /\ req[r1].authAnswer = "granted"
        /\ req[r2].authAnswer = "granted" /\ req[r2].execs = 1
        /\ session_sigs.issued >= RefreshMinutes
        /\ now = session_sigs.issued

\* the cached session is present and the clock is before session_expiry
CachedValid == session_sigs # NoSigs /\ session_expiry # NoExpiry /\ now < session_expiry

\* ensure_connected found no client handle and connect or set_auth_token raised
ConnectFailed == client = NoClient /\ ~(client'.connected /\ client'.token)

\* the service holds no client handle, or one that is connected and authorized
ClientSound == client = NoClient \/ (client.connected /\ client.token)

\* C8 as stated: with a valid cached session ensure_connected calls nothing and
\* changes nothing; otherwise it makes a new transport connect and then asks
\* for new session sigs.  Stated for the calls that find the client handle
\* sound, so that what refutes it is the refresh of an expired session and not
\* the handle a failed connect leaves behind (C9).
C8_FullReconnectWhenStale ==
    [][\A r \in Req :
          (SignCalled(r) /\ ClientSound) =>
              IF CachedValid
              THEN /\ req'[r].connects = req[r].connects
                   /\ req'[r].auths = req[r].auths
                   /\ UNCHANGED <<client, session_sigs, session_expiry>>
              ELSE /\ req'[r].connects = req[r].connects + 1
                   /\ ~ConnectFailed => req'[r].auths = req[r].auths + 1]_vars

\* C8 amended: with a valid cached session ensure_connected calls nothing and
\* changes nothing; otherwise it makes a new transport connect exactly when it
\* holds no client handle and, unless that connect or set_auth_token raises,
\* asks for new session sigs once on the handle it holds, storing granted sigs
\* with session_expiry 55 minutes ahead.
C8_ReauthorizeWhenStale ==
    [][\A r \in Req :
          SignCalled(r) =>
              IF CachedValid
              THEN /\ req'[r].connects = req[r].connects
                   /\ req'[r].auths = req[r].auths
                   /\ UNCHANGED <<client, session_sigs, session_expiry>>
              ELSE /\ req'[r].connects = req[r].connects + (IF client = NoClient THEN 1 ELSE 0)
                   /\ client # NoClient => client' = client
                   /\ req'[r].auths = req[r].auths + (IF ConnectFailed THEN 0 ELSE 1)
                   /\ req'[r].authAnswer = "granted" =>
                          /\ session_sigs' = NewSessionSigs(now, client')
                          /\ session_expiry' = now + RefreshMinutes
                   /\ req'[r].authAnswer # "granted" =>
                          UNCHANGED <<session_sigs, session_expiry>>]_vars

\* C8 witness: a request was granted new session sigs on the client handle an
\* earlier request had connected, without a new connect.
C8_Witness ==
    \E r \in Req :
        /\ req[r].connects = 0 /\ req[r].auths = 1 /\ req[r].authAnswer = "granted"
        /\ client.connected /\ client.token
        /\ session_sigs.issued > 0

\* C9: get_session_sigs is requested only on a client on which connect and
\* set_auth_token have both completed, and the oracle is invoked only with
\* session sigs a successful authorization granted; also in the call that
\* follows a failed connect or a failed authorization.
C9_AuthorizeOnlyWhenConnected ==
    [][\A r \in Req :
          /\ req'[r].auths > req[r].auths => (client'.connected /\ client'.token)
          /\ req'[r].execs > req[r].execs =>
                (session_sigs' # NoSigs /\ client'.connected /\ client'.token)]_vars

\* C10: a signing request that get_session_sigs refuses has made one
\* authorization attempt, has not invoked the signing oracle, has broadcast
\* nothing, and has returned an error.
C10_RefusedSessionAborts ==
    \A r \in Req :
        req[r].authAnswer = "refused" =>
            /\ req[r].auths = 1
            /\ req[r].execs = 0
            /\ req[r].sends = 0
            /\ req[r].pc = "done"
            /\ req[r].result = "exc_session"

\* C10 witness: a request was refused session sigs on a connected client.
C10_Witness ==
    \E r \in Req :
        /\ req[r].authAnswer = "refused" /\ req[r].pc = "done"
        /\ client.connected /\ client.token

\* C11: a request to which the signing oracle answered with a result that has
\* no anchorStateSig returns the "PKP signing failed" error that carries the
\* result, has invoked the oracle once and has broadcast nothing.
C11_NegativeResultAborts ==
    \A r \in Req :
        req[r].execAnswer = "negative" =>
            /\ req[r].pc = "done"
            /\ req[r].result = "sign_failed"
            /\ ResultKeys(req[r].result) = {"error"}
            /\ ErrorDetail(req[r].result) = "sign_result"
            /\ req[r].execs = 1
            /\ req[r].sends = 0
            /\ req[r].chain = "none"

\* C11 witness: the oracle granted the session and then answered a request
\* without a signature.
C11_Witness ==
    \E r \in Req :
        /\ req[r].execAnswer = "negative" /\ req[r].authAnswer = "granted"
        /\ req[r].pc = "done"

\* C12: a request invokes execute_js at most once, whatever the oracle answers:
\* a request that has the oracle's answer never calls it again.
C12_OracleAtMostOnce ==
    \A r \in Req :
        /\ req[r].execs <= 1
        /\ (req[r].execAnswer # "none") =>
               (req[r].execs = 1 /\ req[r].pc \notin {"build", "sign", "exec"})

\* C12 witness: one request's signing call raised, another's returned a
\* signature and a receipt; each has called the oracle once.
C12_Witness ==
    \E r1, r2 \in Req :
        /\ req[r1].execAnswer = "raise" /\ req[r1].result = "exc_sign"
        /\ req[r1].execs = 1
        /\ req[r2].execAnswer = "signature" /\ req[r2].result = "success"
        /\ req[r2].execs = 1

\* C13: sign calls are serialized.  At most one request is between the session
\* check of ensure_connected and the return of execute_js, and while it is
\* there no step changes the client, the session sigs or the session expiry.
C13_SignCallsSerialized ==
    [][/\ \A r1, r2 \in Req : (HoldsLoop(r1) /\ HoldsLoop(r2)) => r1 = r2
       /\ (\E r \in Req : HoldsLoop(r)) =>
             /\ UNCHANGED <<client, session_sigs, session_expiry>>
             /\ \A q \in Req : ~HoldsLoop(q) => req'[q] = req[q]]_vars

\* C13 witness: a request is about to call the oracle with session sigs it has
\* just obtained while another request has built its transaction and waits to
\* sign.
C13_Witness ==
    \E r1, r2 \in Req :
        /\ HoldsLoop(r1) /\ req[r1].authAnswer = "granted"
        /\ req[r2].pc = "sign"

\* C14: shutdown releases the session.  Once the server has stopped, the
\* service holds neither a client handle nor session sigs.
C14_ShutdownReleases ==
    server = "stopped" => (client = NoClient /\ session_sigs = NoSigs)

\* C15: a transaction whose simulation against the chain reverts is never
\* passed to the signing oracle and never broadcast.
C15_DoomedNeverSigned ==
    [][\A r \in Req :
          /\ req'[r].execs > req[r].execs => Simulate(req[r].tx)
          /\ req'[r].sends > req[r].sends => Simulate(Broadcast(r).tx)]_vars

\* C16: a request whose confirmation timed out after its transaction was
\* broadcast returns a result that keeps the transaction hash for later
\* polling.
C16_TimeoutKeepsHandle ==
    \A r \in Req :
        req[r].result = "exc_timeout" => "tx_hash" \in ResultKeys(req[r].result)

\* C17: a request that reads a receipt whose status is not success returns the
\* "Transaction reverted" error with the receipt, never a success, and then
\* stays returned: it has read one nonce, signed once and broadcast once.
C17_RevertedIsTerminal ==
    [][\A r \in Req :
          /\ (req[r].pc = "wait" /\ req'[r].pc # "wait"
                  /\ req[r].chain = "mined_reverted") =>
                /\ req'[r].result = "reverted"
                /\ ResultKeys(req'[r].result) = {"error", "receipt"}
          /\ req[r].result = "reverted" =>
                /\ req'[r] = req[r]
                /\ req[r].pc = "done"
                /\ req[r].nonceReads = 1 /\ req[r].execs = 1 /\ req[r].sends = 1]_vars

\* C17 witness: a request returned the reverted error and another request ran
\* after it.
C17_Witness ==
    \E r1, r2 \in Req :
        /\ req[r1].result = "reverted" /\ req[r1].chain = "mined_reverted"
        /\ req[r2].result = "success"
        /\ chainNonce = 2

\* C18: a request whose broadcast the node refused for a used-up nonce returns
\* a result that marks the condition, beside the error text, as retryable, and
\* carries no receipt.
C18_StaleNonceRetryable ==
    \A r \in Req :
        req[r].result = "exc_nonce" =>
            /\ ResultKeys(req[r].result) \ {"error"} # {}
            /\ "receipt" \notin ResultKeys(req[r].result)

\* a request failed before it submitted anything
FailedBeforeSubmit(q) ==
    \/ q.result \in {"bad_state_hash", "exc_rpc", "exc_connect", "exc_session",
                     "exc_sign", "sign_failed", "exc_serialize"}
    \/ q.authAnswer = "refused"
    \/ q.execAnswer \in {"negative", "raise"}
    \/ q.execAnswer = "sig_malformed" /\ q.pc = "done"

\* C19: a request that fails in input validation, in the build, in the session
\* authorization, in signing or in serializing has returned an error, has
\* broadcast nothing and has nothing pending on the chain; a signature that
\* cannot be serialized never reaches the node.
C19_FailureLeavesChainUntouched ==
    \A r \in Req :
        /\ FailedBeforeSubmit(req[r]) =>
              /\ req[r].pc = "done"
              /\ "error" \in ResultKeys(req[r].result)
              /\ "success" \notin ResultKeys(req[r].result)
              /\ req[r].sends = 0
              /\ req[r].chain = "none"
              /\ req[r].sent = NoSent
        /\ req[r].execAnswer = "sig_malformed" => req[r].sends = 0

\* C19 witness: one request failed in the build and one in serializing the
\* signature it got, and the chain has seen no transaction.
C19_Witness ==
    \E r1, r2 \in Req :
        /\ req[r1].result = "exc_rpc"
        /\ req[r2].result = "exc_serialize" /\ req[r2].execs = 1
        /\ chainNonce = 0 /\ Pending = {}

\* the state_hash verify_state_anchor returns for the token
VerifyStateAnchor == ToHex(anchor)

\* request r takes the step in which its pending transaction is mined with
\* status success
MinedOk(r) == req[r].chain = "pending" /\ req'[r].chain = "mined_ok"

WellFormedHash(h) == h.prefix = "0x" /\ h.len = HashLen /\ h.id \in {"ab", "AB"}

\* C30: anchor_state_via_pkp called with a state_hash that is not "0x" and 64
\* hex characters fetches no nonce: a request that holds such a state_hash
\* makes no call to the chain.
C30_MalformedHashRejected ==
    [][\A r \in Req :
          (req[r].tool = "anchor_state_via_pkp" /\ ~WellFormedHash(req[r].state_hash)) =>
              /\ req'[r].nonceReads = req[r].nonceReads
              /\ req'[r].sends = req[r].sends]_vars

\* What a decoder of signed type-2 transactions reads: an integer field is a
\* string item without a leading zero byte.
RECURSIVE BigEndianToInt(_)
BigEndianToInt(b) ==
    IF b = <<>> THEN 0
    ELSE BigEndianToInt(SubSeq(b, 1, Len(b) - 1)) * ByteBase + b[Len(b)]

IntegerFields == {1, 2, 3, 4, 5, 7, 10, 11, 12}

CanonicalInt(item) == ~item.list /\ (item.str = <<>> \/ item.str[1] # 0)

Decodes(raw) ==
    /\ raw.type = 2
    /\ Len(raw.payload) = 12
    /\ \A i \in IntegerFields : CanonicalInt(raw.payload[i])
    /\ ~raw.payload[6].list
    /\ ~raw.payload[8].list
    /\ raw.payload[9].list

DecodedInt(raw, i) == BigEndianToInt(raw.payload[i].str)

\* C21: the assembled transaction carries a low-s signature: an s above half
\* the curve order is encoded as curveOrder - s with the complemented recovery
\* id, and any other signature is encoded unchanged.
C21_LowS ==
    calc.op = "serialized" =>
        LET sig == calc.signature
            v == BigEndianToInt(calc.raw.payload[10].str)
            r == BigEndianToInt(calc.raw.payload[11].str)
            s == BigEndianToInt(calc.raw.payload[12].str)
        IN  /\ r = sig.r
            /\ 2 * s <= CurveOrder
            /\ IF 2 * sig.s > CurveOrder
                  THEN s = CurveOrder - sig.s /\ v = 1 - sig.recid
                  ELSE s = sig.s /\ v = sig.recid

\* C22: the bytes of serialize_signed_tx decode to the field list that
\* compute_tx_hash hashed, unchanged, followed by recid, r and s.
C22_RoundTrip ==
    calc.op = "serialized" =>
        LET tx == calc.tx
            sig == calc.signature
            raw == calc.raw
        IN  /\ Decodes(raw)
            /\ SubSeq(raw.payload, 1, 9) = SigningPayload(tx).payload
            /\ <<DecodedInt(raw, 1), DecodedInt(raw, 2), DecodedInt(raw, 3),
                  DecodedInt(raw, 4), DecodedInt(raw, 5), DecodedInt(raw, 7)>>
                 = <<tx.chainId, tx.nonce, tx.maxPriorityFeePerGas, tx.maxFeePerGas,
                     tx.gas, tx.value>>
            /\ raw.payload[6].str = <<tx.to>>
            /\ raw.payload[8].str = <<tx.data>>
            /\ <<DecodedInt(raw, 10), DecodedInt(raw, 11), DecodedInt(raw, 12)>>
                 = <<sig.recid, sig.r, sig.s>>

\* the same round trip for the signatures whose r and s fill all their bytes
C22_RoundTripFullWidth ==
    (calc.op = "serialized"
        /\ calc.signature.r >= Pow(ByteBase, SigLen - 1)
        /\ calc.signature.s >= Pow(ByteBase, SigLen - 1)) =>
        /\ Decodes(calc.raw)
        /\ SubSeq(calc.raw.payload, 1, 9) = SigningPayload(calc.tx).payload
        /\ <<DecodedInt(calc.raw, 10), DecodedInt(calc.raw, 11), DecodedInt(calc.raw, 12)>>
             = <<calc.signature.recid, calc.signature.r, calc.signature.s>>

\* C23: a built transaction has maxPriorityFeePerGas equal to the tip and
\* maxFeePerGas = 2 x base fee + maxPriorityFeePerGas, which is at least the
\* tip for every base fee >= 0.
C23_FeePolicy ==
    calc.op = "built" =>
        /\ calc.tx.maxPriorityFeePerGas = PriorityFeeWei
        /\ calc.tx.maxFeePerGas = 2 * calc.base_fee + calc.tx.maxPriorityFeePerGas
        /\ calc.tx.maxFeePerGas >= calc.tx.maxPriorityFeePerGas

C23_Witness == calc.op = "built" /\ calc.base_fee = MaxBaseFee /\ calc.base_fee > 0

\* the value stored under a key of a dict
Get(d, k) == d[CHOOSE i \in 1..Len(d) : d[i].key = k].val

Keys(d) == {d[i].key : i \in 1..Len(d)}

\* the logical content of a document: what is stored under each key, whatever
\* the order of insertion
RECURSIVE Logical(_)
Logical(d) ==
    [k \in Keys(d) |->
        LET it == d[CHOOSE i \in 1..Len(d) : d[i].key = k]
        IN  IF it.dict THEN Logical(it.val) ELSE it.val]

\* C24: changing the content, the creator state commitment or the timestamp
\* of an action anchor changes the combined commitment; changing only the
\* description or the collaborators changes it too and leaves the work
\* product hash as it was.
C24_AuthorshipBinding ==
    calc.op = "composed" =>
        LET a == calc.a
            b == calc.b
            changed ==
                \/ a.content # b.content
                \/ calc.ra.creator_state_hash # calc.rb.creator_state_hash
                \/ a.timestamp # b.timestamp
                \/ a.description # b.description
                \/ a.collaborators # b.collaborators
        IN  /\ changed => calc.ra.combined_anchor_hash # calc.rb.combined_anchor_hash
            /\ a.content = b.content =>
                   calc.ra.work_product_hash = calc.rb.work_product_hash

C24_Witness ==
    /\ calc.op = "composed"
    /\ calc.a.description # calc.b.description
    /\ calc.b = [calc.a EXCEPT !.description = calc.b.description]
    /\ calc.ra.combined_anchor_hash # calc.rb.combined_anchor_hash
    /\ calc.ra.work_product_hash = calc.rb.work_product_hash

\* C25: when the creator's state commitment cannot be read, the creator state
\* commitment of the action anchor is the all-zero hash, and the combined
\* commitment differs from the one the same inputs give with a non-zero
\* state commitment.
C25_ZeroSentinel ==
    (calc.op = "composed" /\ calc.a.read = "raise") =>
        /\ calc.ra.creator_state_hash = ZeroSentinel
        /\ (/\ calc.b = [calc.a EXCEPT !.read = calc.b.read]
            /\ calc.rb.creator_state_hash # ZeroSentinel) =>
               calc.ra.combined_anchor_hash # calc.rb.combined_anchor_hash

C25_Witness ==
    /\ calc.op = "composed"
    /\ calc.a.read = "raise"
    /\ calc.b = [calc.a EXCEPT !.read = "ab"]
    /\ calc.ra.creator_state_hash = ZeroSentinel
    /\ calc.ra.combined_anchor_hash # calc.rb.combined_anchor_hash

\* C26: two documents with the same logical content and different orders of
\* key insertion, at any depth, have the same hash_state.
C26_OrderIrrelevant ==
    (calc.op = "hashed" /\ Logical(calc.d1) = Logical(calc.d2)) => calc.h1 = calc.h2

C26_Witness ==
    /\ calc.op = "hashed"
    /\ Logical(calc.d1) = Logical(calc.d2)
    /\ Get(Get(calc.d1, "memory_blocks"), "persona")[1].key
          # Get(Get(calc.d2, "memory_blocks"), "persona")[1].key
    /\ calc.h1 = calc.h2

\* C27: two runs of anchor_my_state over the same fetched data give the same
\* state hash.
C27_HashOfFetchedDataOnly ==
    calc.op = "state_hashed" => calc.state_hash1 = calc.state_hash2

\* the keys of the state document, as export_agent_state writes them
StateSchemaKeys ==
    {"schema_version", "export_timestamp", "agent", "memory_blocks", "archival_memory"}

\* C28: the document anchor_my_state hashes has every key of the state schema,
\* whatever include_archival is.
C28_NoKeyOmitted ==
    calc.op = "state_hashed" => StateSchemaKeys \subseteq Keys(calc.state)

\* C29: hash_state, anchor_my_state, SelfSovereignWallet.anchor_state and the
\* PKP test scripts give the same commitment for the same document, Keccak-256
\* of the sorted-key serialization without whitespace.
C29_OneCommitment ==
    calc.op = "hashed" =>
        /\ calc.h1 = Keccak(Dumps(calc.d1, TRUE, ",", ":"))
        /\ calc.tool = calc.h1
        /\ calc.wallet = calc.h1
        /\ calc.script = calc.h1

\* hash_state and anchor_my_state agree with each other
C29_ScriptsAndToolAgree ==
    calc.op = "hashed" =>
        /\ calc.h1 = Keccak(Dumps(calc.d1, TRUE, ",", ":"))
        /\ calc.tool = calc.h1

\* C38: serialize_signed_tx encodes r and s as integers of the chain's
\* encoding, big-endian without a leading zero byte, also when their most
\* significant byte is zero, so that a strict decoder accepts the transaction.
C38_CanonicalRS ==
    calc.op = "serialized" =>
        /\ CanonicalInt(calc.raw.payload[11])
        /\ CanonicalInt(calc.raw.payload[12])
        /\ calc.raw.payload[11].str = IntToBigEndian(calc.signature.r)
        /\ calc.raw.payload[12].str = IntToBigEndian(calc.signature.s)
        /\ Decodes(calc.raw)

\* a request is a call of a read-only tool that returns in this step
ReadOnlyCall(r) == req[r].pc = "idle" /\ req'[r].tool \in ReadOnlyTools

C31_WitnessBesideSession ==
    /\ session_sigs # NoSigs
    /\ \E r \in Req : req[r].tool = "verify_state_anchor" /\ req[r].result = "state_anchor"

\* the steps of an anchoring request in the order of the code: authenticate,
\* build and digest, session, sign, assemble and broadcast, await the receipt
StepRank(pc) ==
    CASE pc = "idle" -> 0
      [] pc = "build" -> 1
      [] pc = "sign" -> 2
      [] pc = "exec" -> 3
      [] pc = "send" -> 4
      [] pc = "wait" -> 5
      [] OTHER -> 6

\* C32: a request goes through authenticate, build and digest, session, sign,
\* assemble, broadcast and await in this order, each call to the chain and to
\* the oracle in its own step; it broadcasts at most once, and only a
\* signature that was obtained for the digest of its transaction.
C32_StepOrder ==
    [][\A r \in Req :
          /\ req'[r].pc # req[r].pc =>
                 req'[r].pc = "done" \/ StepRank(req'[r].pc) = StepRank(req[r].pc) + 1
          /\ req'[r].nonceReads # req[r].nonceReads => req[r].pc = "build"
          /\ (req'[r].connects # req[r].connects \/ req'[r].auths # req[r].auths) =>
                 req[r].pc = "sign"
          /\ req'[r].execs # req[r].execs => req[r].pc = "exec"
          /\ req'[r].sends # req[r].sends =>
                 /\ req[r].pc = "send"
                 /\ req[r].execs = 1
                 /\ req[r].sig.by = r
                 /\ req[r].sig.digest = ComputeTxHash(req[r].tx)
          /\ req'[r].nonceReads <= 1
          /\ req'[r].sends <= 1]_vars

\* a request has gone through all the steps and returned success
C32_Witness ==
    \E r \in Req :
        /\ req[r].result = "success"
        /\ req[r].nonceReads = 1 /\ req[r].execs = 1 /\ req[r].sends = 1

\* the request was a call of anchor_state_via_pkp or anchor_action_via_pkp
\* that passed the API-key check and has returned
AnchoringReturned(r) ==
    /\ req[r].pc = "done"
    /\ req[r].tool \notin ReadOnlyTools
    /\ req[r].result # "auth_failed"

\* C37: an anchoring call that passed authentication returns a dict with
\* success or with an error, never both and never neither; no exception of
\* its steps leaves the tool.
C37_SuccessOrError ==
    \A r \in Req : AnchoringReturned(r) =>
        /\ req[r].result # "raised"
        /\ ("success" \in ResultKeys(req[r].result)) # ("error" \in ResultKeys(req[r].result))

\* one request has returned success, another the error of an exception that
\* serialize_signed_tx raised
C37_Witness ==
    \E r, q \in Req :
        /\ AnchoringReturned(r) /\ req[r].result = "success"
        /\ AnchoringReturned(q) /\ req[q].result = "exc_serialize"

\* C35: every anchoring request that was called returns: the wait for the
\* receipt ends with the receipt or with the timeout, and the request returns
\* a result in both cases.
C35_RequestTerminates ==
    \A r \in Req : (req[r].pc # "idle") ~> (req[r].pc = "done")

\* a request has returned after a wait that ended without a receipt
C35_Witness ==
    \E r \in Req : req[r].pc = "done" /\ req[r].result = "exc_timeout" /\ req[r].chain = "pending"

\* C36: session sigs are held only together with the client handle that
\* obtained them, and execute_js is never called on one client handle with
\* session sigs obtained through another.
C36_SessionOwnsHandle ==
    /\ session_sigs # NoSigs => (client # NoClient /\ session_sigs.via = client.id)
    /\ (calc.op = "sign_with_pkp" /\ calc.raised = "none") =>
           (calc.handle # 0 /\ calc.via = calc.handle)

\* execute_js was called on the second client handle, after a disconnect
C36_Witness ==
    /\ calc.op = "sign_with_pkp" /\ calc.raised = "none"
    /\ calc.handle = 2 /\ calc.via = 2
    /\ session_sigs # NoSigs

\* C33: sign_hash never calls the oracle with session sigs that are past
\* their expiration: a cached session that has expired is refreshed before it
\* is used.
C33_SignHashSessionFresh ==
    (script.pc = "LitSigner" /\ script.used # NoUse) => script.used.at < script.used.expires

\* C34: every way main ends after client.connect() has been called passes
\* through client.disconnect().
C34_DisconnectOnEveryExit ==
    (script.pc = "exited" /\ script.connected) => script.disconnects >= 1

\* main disconnects when the oracle returns no signature and on every exit
\* from the broadcast on
C34_DisconnectFromBroadcastOn ==
    (script.pc = "exited" /\ (script.at \in {"send", "wait"}
                              \/ (script.at = "sign" /\ script.exit = "return"))) =>
        script.disconnects = 1

====
